---- MODULE Spec2Model ----
(***************************************************************************)
(* Model of the PostPage component (src/src/PostPage.jsx): four string     *)
(* state fields, the preview region rendered from them, the og:image tag   *)
(* declared through Helmet, and handleGenerateOgImage, which hands the     *)
(* preview region to the rasterizer (toPng) and installs a fulfilment and  *)
(* a rejection callback on the promise it returns.                         *)
(*                                                                         *)
(* The rasterizer is an external collaborator: a promise started by the    *)
(* handler settles in a later step of the event loop, either fulfilled     *)
(* with some data URI or rejected with some reason.  Every step of the     *)
(* model is one event-loop task followed by the re-render React commits    *)
(* for the state it changed.                                               *)
(***************************************************************************)
EXTENDS Integers, Sequences, FiniteSets, TLC

\* ---- bounds ------------------------------------------------------------
NumTexts == 2       \* distinct non-empty strings a user may type into a field
NumImages == 2      \* distinct data URIs the rasterizer may deliver
MaxCaptures == 3    \* clicks on "Generate OG Image" explored in one behaviour

\* ---- values ------------------------------------------------------------
Texts == {""} \cup { "text" \o ToString(i) : i \in 1..NumTexts }
DataURIs == { "data:image/png;base64," \o ToString(i) : i \in 1..NumImages }
Null == "null"
PreviewNode == "div.post-preview"
CaptureError == "Error"

VARIABLES
  mounted,      \* the first render has been committed
  title, content, imageUrl, ogImageUrl,   \* the four useState cells
  postRef,      \* postRef.current
  preview,      \* children of <div className="post-preview"> as last rendered
  head,         \* tags declared inside <Helmet> as last rendered
  pending,      \* promises returned by toPng that have not settled
  settled,      \* settlements of those promises, in the order they happened
  log,          \* console.error calls, in order
  nextId        \* number of the next click on the button

vars == <<mounted, title, content, imageUrl, ogImageUrl, postRef, preview,
          head, pending, settled, log, nextId>>

\* ---- rendering ---------------------------------------------------------
\* JavaScript truthiness of a string: only "" is falsy.
Truthy(s) == s # ""

Element(tag, text, src) == [tag |-> tag, text |-> text, src |-> src]

PreviewChildren_AlwaysImg(t, c, u) ==
  << Element("h2", t, ""), Element("p", c, ""), Element("img", "", u) >>

\* <h2>{title}</h2> <p>{content}</p> {imageUrl && <img src={imageUrl} />}
PreviewChildren(t, c, u) ==
  << Element("h2", t, ""), Element("p", c, "") >>
    \o (IF Truthy(u) THEN << Element("img", "", u) >> ELSE << >>)

Meta(property, cont) == [property |-> property, content |-> cont]

HelmetTags_Unguarded(og) == << Meta("og:image", og) >>

\* <Helmet>{ogImageUrl && <meta property="og:image" content={ogImageUrl} />}</Helmet>
HelmetTags(og) ==
  IF Truthy(og) THEN << Meta("og:image", og) >> ELSE << >>

\* The render React commits after a task: the JSX evaluated on the new state.
Render ==
  /\ preview' = PreviewChildren(title', content', imageUrl')
  /\ head' = HelmetTags(ogImageUrl')

\* ---- initial state and mount ------------------------------------------
Init ==
  /\ mounted = FALSE
  /\ title = ""
  /\ content = ""
  /\ imageUrl = ""
  /\ ogImageUrl = ""
  /\ postRef = Null
  /\ preview = << >>
  /\ head = << >>
  /\ pending = {}
  /\ settled = << >>
  /\ log = << >>
  /\ nextId = 1

\* First commit: the ref is attached and the JSX is rendered.
Mount ==
  /\ ~mounted
  /\ mounted' = TRUE
  /\ postRef' = PreviewNode
  /\ UNCHANGED <<title, content, imageUrl, ogImageUrl, pending, settled, log, nextId>>
  /\ Render

\* ---- form controls -----------------------------------------------------
\* onChange={(e) => setTitle(e.target.value)}
EditTitle(v) ==
  /\ mounted
  /\ v # title
  /\ title' = v
  /\ UNCHANGED <<mounted, content, imageUrl, ogImageUrl, postRef, pending, settled, log, nextId>>
  /\ Render

\* onChange={(e) => setContent(e.target.value)}
EditContent(v) ==
  /\ mounted
  /\ v # content
  /\ content' = v
  /\ UNCHANGED <<mounted, title, imageUrl, ogImageUrl, postRef, pending, settled, log, nextId>>
  /\ Render

\* onChange={(e) => setImageUrl(e.target.value)}
EditImageUrl(v) ==
  /\ mounted
  /\ v # imageUrl
  /\ imageUrl' = v
  /\ UNCHANGED <<mounted, title, content, ogImageUrl, postRef, pending, settled, log, nextId>>
  /\ Render

\* ---- capture -----------------------------------------------------------
GenerateButtonDisabled_WhilePending == pending # {}

GenerateButtonDisabled_AfterFailure == Len(log) > 0

\* <button onClick={handleGenerateOgImage}>: no disabled attribute.
GenerateButtonDisabled == FALSE

\* A promise returned by toPng: the click that started it, the node it was
\* given, and how many promises had settled when it was started.
Capture(id, region, startedAt) ==
  [id |-> id, region |-> region, startedAt |-> startedAt]

handleGenerateOgImage_ClearsFirst ==
  /\ pending' = pending \cup { Capture(nextId, postRef, Len(settled)) }
  /\ ogImageUrl' = ""

\* toPng(postRef.current).then(...).catch(...): starts the promise and returns.
handleGenerateOgImage ==
  /\ pending' = pending \cup { Capture(nextId, postRef, Len(settled)) }
  /\ ogImageUrl' = ogImageUrl

ClickGenerate ==
  /\ mounted
  /\ ~GenerateButtonDisabled
  /\ nextId <= MaxCaptures
  /\ handleGenerateOgImage
  /\ nextId' = nextId + 1
  /\ UNCHANGED <<mounted, title, content, imageUrl, postRef, settled, log>>
  /\ Render

Settlement(c, outcome, value) ==
  [id |-> c.id, startedAt |-> c.startedAt, outcome |-> outcome, value |-> value]

ThenCallback_Append(dataUrl) == ogImageUrl' = ogImageUrl \o dataUrl

ThenCallback_FirstWins(dataUrl) ==
  ogImageUrl' = IF Truthy(ogImageUrl) THEN ogImageUrl ELSE dataUrl

\* .then((dataUrl) => { setOgImageUrl(dataUrl); })
ThenCallback(dataUrl) == ogImageUrl' = dataUrl

CatchCallback_Clears(err) ==
  /\ log' = Append(log, <<"Error generating image:", err>>)
  /\ ogImageUrl' = ""

CatchCallback_Silent(err) ==
  /\ log' = log
  /\ ogImageUrl' = ogImageUrl

\* .catch((err) => { console.error("Error generating image:", err); })
CatchCallback(err) ==
  /\ log' = Append(log, <<"Error generating image:", err>>)
  /\ ogImageUrl' = ogImageUrl

\* The promise of capture c is fulfilled with dataUrl.
CaptureFulfilled(c, dataUrl) ==
  /\ c \in pending
  /\ c.region # Null
  /\ pending' = pending \ {c}
  /\ settled' = Append(settled, Settlement(c, "fulfilled", dataUrl))
  /\ ThenCallback(dataUrl)
  /\ log' = log
  /\ UNCHANGED <<mounted, title, content, imageUrl, postRef, nextId>>
  /\ Render

\* The promise of capture c is rejected (always so for a null node).
CaptureRejected(c) ==
  /\ c \in pending
  /\ pending' = pending \ {c}
  /\ settled' = Append(settled, Settlement(c, "rejected", CaptureError))
  /\ CatchCallback(CaptureError)
  /\ UNCHANGED <<mounted, title, content, imageUrl, postRef, nextId>>
  /\ Render

Next ==
  \/ Mount
  \/ \E v \in Texts : EditTitle(v)
  \/ \E v \in Texts : EditContent(v)
  \/ \E v \in Texts : EditImageUrl(v)
  \/ ClickGenerate
  \/ \E c \in pending : \E d \in DataURIs : CaptureFulfilled(c, d)
  \/ \E c \in pending : CaptureRejected(c)

Spec == Init /\ [][Next]_vars

\* ---- observing steps ---------------------------------------------------
\* The step is a click on the button.
IsClick == nextId' = nextId + 1

\* The step settles a promise; LastSettled is that settlement.
IsSettle == Len(settled') = Len(settled) + 1

LastSettled == settled'[Len(settled')]

IsFulfil == IsSettle /\ LastSettled.outcome = "fulfilled"

IsReject == IsSettle /\ LastSettled.outcome = "rejected"

Fulfilled(s) == { i \in DOMAIN s : s[i].outcome = "fulfilled" }

Rejected(s) == { i \in DOMAIN s : s[i].outcome = "rejected" }

OgEntries == { i \in DOMAIN head : head[i].property = "og:image" }

ImgElements == { i \in DOMAIN preview : preview[i].tag = "img" }

\* Settlements i < j whose captures were in flight at the same time.
Overlapped(i, j) == i < j /\ settled[j].startedAt < i

\* ---- C1 ----------------------------------------------------------------
\* C1: a capture that completes with a failure leaves ogImageUrl exactly as
\* it was immediately before the completion (prior value kept, or still "").
C1_FailureKeepsOgImageUrl ==
  [][IsReject => ogImageUrl' = ogImageUrl]_vars

\* A failure has just been handled while an earlier image is stored.
C1_Witness ==
  /\ Len(settled) >= 2
  /\ settled[Len(settled)].outcome = "rejected"
  /\ Fulfilled(settled) # {}
  /\ ogImageUrl \in DataURIs

\* ---- C2 ----------------------------------------------------------------
\* C2: whenever a capture completes successfully, ogImageUrl becomes exactly
\* the data URI delivered by that completion, is non-empty afterwards, and
\* nothing of the prior value survives.
C2_SuccessReplacesOgImageUrl ==
  [][IsFulfil => /\ ogImageUrl' = LastSettled.value
                 /\ ogImageUrl' # ""
                 /\ ogImageUrl' \in DataURIs]_vars

\* A second success has replaced a different, earlier image.
C2_Witness ==
  /\ Len(settled) >= 2
  /\ settled[Len(settled)].outcome = "fulfilled"
  /\ \E i \in Fulfilled(settled) : settled[i].value # settled[Len(settled)].value
  /\ ogImageUrl = settled[Len(settled)].value

\* ---- C3 ----------------------------------------------------------------
\* C3: in every reachable state the og:image entry is declared iff
\* ogImageUrl is present, there is at most one such entry, and its content
\* is the current, non-empty ogImageUrl.
C3_HeadMirrorsOgImageUrl ==
  /\ (OgEntries # {}) <=> (ogImageUrl # "")
  /\ Cardinality(OgEntries) <= 1
  /\ \A i \in OgEntries : head[i].content = ogImageUrl /\ head[i].content # ""

\* The entry shows the second of two different images.
C3_Witness ==
  /\ OgEntries # {}
  /\ \E i \in Fulfilled(settled) : settled[i].value # ogImageUrl
  /\ \A i \in OgEntries : head[i].content = ogImageUrl

\* ---- C4 ----------------------------------------------------------------
LastFulfilledValue(s) ==
  IF Fulfilled(s) = {} THEN ""
  ELSE s[CHOOSE i \in Fulfilled(s) : \A j \in Fulfilled(s) : j <= i].value

\* C4 as stated: once overlapping captures have all completed, ogImageUrl
\* is the result of the capture whose completion fired last.
C4_Original ==
  (/\ pending = {}
   /\ \E i, j \in DOMAIN settled : Overlapped(i, j))
    => ogImageUrl = settled[Len(settled)].value

\* C4 (amended): once overlapping captures have all completed, in whatever
\* order, ogImageUrl is the data URI of the capture whose successful
\* completion fired last, and is still "" if none of them succeeded.
C4_LastSuccessWins ==
  (/\ pending = {}
   /\ \E i, j \in DOMAIN settled : Overlapped(i, j))
    => ogImageUrl = LastFulfilledValue(settled)

\* Two overlapping captures succeeded in the reverse of their trigger order
\* with different images, and the one that completed last is stored.
C4_Witness ==
  /\ pending = {}
  /\ \E i, j \in Fulfilled(settled) :
       /\ Overlapped(i, j)
       /\ settled[i].id > settled[j].id
       /\ settled[i].value # settled[j].value
       /\ j = Len(settled)
       /\ ogImageUrl = settled[j].value

\* ---- C6 ----------------------------------------------------------------
PreviewMirrorsFields ==
  mounted =>
    /\ Len(preview) >= 2
    /\ preview[1].tag = "h2" /\ preview[1].text = title
    /\ preview[2].tag = "p" /\ preview[2].text = content
    /\ (ImgElements # {}) <=> (imageUrl # "")
    /\ Cardinality(ImgElements) <= 1
    /\ \A i \in ImgElements : preview[i].src = imageUrl

\* C6: at every render the preview shows the current title and content and
\* holds an image element iff imageUrl is non-empty, with that source; a
\* capture triggered with an empty imageUrl is handed a region without one.
C6_PreviewMirrorsFields ==
  /\ []PreviewMirrorsFields
  /\ [][(IsClick /\ imageUrl = "") =>
          /\ ImgElements = {}
          /\ \E c \in pending' \ pending : c.region = PreviewNode]_vars

\* A capture was triggered on an edited preview that has no image element.
C6_Witness ==
  /\ title # "" /\ content # "" /\ imageUrl = ""
  /\ pending # {}
  /\ ImgElements = {}
  /\ preview[1].text = title

\* ---- C7 ----------------------------------------------------------------
\* C7: the four fields are empty on mount; ogImageUrl changes only in a
\* successful completion; each edit changes only its own field; a trigger
\* or a completion leaves title, content and imageUrl unchanged.
C7_Frame ==
  /\ [](~mounted => title = "" /\ content = "" /\ imageUrl = "" /\ ogImageUrl = "")
  /\ [][(~mounted /\ mounted') =>
          title' = "" /\ content' = "" /\ imageUrl' = "" /\ ogImageUrl' = ""]_vars
  /\ [][ogImageUrl' # ogImageUrl => IsFulfil]_vars
  /\ [][title' # title => UNCHANGED <<content, imageUrl, ogImageUrl>>]_vars
  /\ [][content' # content => UNCHANGED <<title, imageUrl, ogImageUrl>>]_vars
  /\ [][imageUrl' # imageUrl => UNCHANGED <<title, content, ogImageUrl>>]_vars
  /\ [][(IsClick \/ IsSettle) => UNCHANGED <<title, content, imageUrl>>]_vars

\* Every field was edited, a capture failed after an image was stored, and
\* another capture was triggered.
C7_Witness ==
  /\ title # "" /\ content # "" /\ imageUrl # ""
  /\ ogImageUrl \in DataURIs
  /\ Rejected(settled) # {}
  /\ pending # {}

\* ---- C8 ----------------------------------------------------------------
\* C8: a trigger only starts a capture (ogImageUrl, settlements and log are
\* untouched); its result arrives in a separate later step; a capture stops
\* being pending only by settling; and while one is pending every edit and
\* a further trigger stay enabled.
C8_NonBlocking ==
  /\ [][IsClick => /\ ogImageUrl' = ogImageUrl
                   /\ settled' = settled /\ log' = log
                   /\ \E c \in pending' \ pending :
                        c.id = nextId /\ pending' = pending \cup {c}]_vars
  /\ [][IsSettle => \E c \in pending :
                      c.id = LastSettled.id /\ pending' = pending \ {c}]_vars
  /\ [][pending' # pending => (IsClick \/ IsSettle)]_vars
  /\ [](pending # {} =>
          /\ ENABLED (\E v \in Texts : EditTitle(v))
          /\ ENABLED (\E v \in Texts : EditContent(v))
          /\ ENABLED (\E v \in Texts : EditImageUrl(v))
          /\ (nextId <= MaxCaptures => ENABLED ClickGenerate))

\* Two captures are in flight and a field was edited after the first click.
C8_Witness ==
  /\ Cardinality(pending) >= 2
  /\ ogImageUrl = ""
  /\ title # ""

\* ---- C9 ----------------------------------------------------------------
\* C9: after any number of failed captures the trigger is still enabled,
\* and a capture that then succeeds stores its data URI as usual.
C9_FailureRecoverable ==
  /\ [](Len(log) > 0 /\ nextId <= MaxCaptures => ENABLED ClickGenerate)
  /\ [][(Len(log) > 0 /\ IsFulfil) => ogImageUrl' = LastSettled.value]_vars

\* A capture triggered after a failure has succeeded and its image is stored.
C9_Witness ==
  /\ Len(settled) >= 2
  /\ \E i \in Rejected(settled) : \E j \in Fulfilled(settled) :
       /\ settled[j].startedAt >= i
       /\ j = Len(settled)
       /\ ogImageUrl = settled[j].value

\* ---- C10 ---------------------------------------------------------------
\* C10: each failed completion adds exactly one console.error entry and
\* changes nothing the user can see; a successful completion adds none; the
\* log grows in no other step.
C10_FailureLoggedOnly ==
  /\ [][IsReject =>
          /\ log' = Append(log, <<"Error generating image:", LastSettled.value>>)
          /\ UNCHANGED <<title, content, imageUrl, ogImageUrl, preview, head>>]_vars
  /\ [][IsFulfil => log' = log]_vars
  /\ [][log' # log => IsReject]_vars
  /\ [](Len(log) = Cardinality(Rejected(settled)))

\* Two failures and a success: two log entries, the image still shown.
C10_Witness ==
  /\ Len(log) = 2
  /\ Cardinality(Rejected(settled)) = 2
  /\ Fulfilled(settled) # {}
  /\ head # << >>

====
